---- MODULE Spec2Model ----
(***************************************************************************)
(* pycheops/models.py: the flux kernels qpower2 and ueclipse, the depth    *)
(* scale estimators scaled_transit_fit and minerr_transit_fit, and the     *)
(* parameter validation of TransitModel / EclipseModel.                    *)
(*                                                                         *)
(* Real numbers are exact rationals.  A quantity on the input grid is an   *)
(* integer n standing for n/Q; a derived quantity is a fraction <<n, d>>   *)
(* with d > 0.  Values of transcendental closed forms (arccos, sqrt, real  *)
(* powers) are kept as terms naming the branch that computed them and the  *)
(* arguments it read.                                                      *)
(***************************************************************************)
EXTENDS Integers, Sequences, FiniteSets, TLC

\* ------------------------------------------------------------------ bounds
\* Grid denominator: an input n stands for the real number n/Q.
Q == 4
\* Largest |z| on the grid, in units of 1/Q.
ZMax == 6
\* Longest input array.
MaxLen == 2
\* Longest flux array handed to an estimator.
MaxN == 3
\* Deepest flux / model sample below 1, in units of 1/Q.
FluxDepth == 2
\* Likelihood values are kept in units of 0.5 / HalfLog.
HalfLog == 2
\* Largest value of the negative log-likelihood, in those units.
NllMax == 2
\* Doubling of s_max and s_hi is followed up to 2^MaxPow.
MaxPow == 3

\* ------------------------------------------------------- program constants
\* z[m] = 9999: the separation a caller forces for a hidden planet.
Sentinel == 9999

VARIABLES
    fn,       \* the kernel being run: "qpower2", "ueclipse" or "none"
    z,        \* separation array handed to the kernel (units of 1/Q)
    k,        \* radius ratio handed to the kernel (units of 1/Q)
    ca,       \* <<c, a>> of qpower2 in tenths, <<0, 0>> for ueclipse
    pc,       \* position in the kernel
    i,        \* loop index of the kernel (1-based)
    f,        \* the kernel's output array f / fl
    ret,      \* what the kernel returned: <<"none">>, <<"array", f>>
    err,      \* the exception that left the kernel, "" when none
    log,      \* what has been done so far, in order
    caller,   \* the model function being run: "TransitModel", "EclipseModel", "none"
    par,      \* the parameters handed to the model function
    wpc,      \* position in the model function
    wret,     \* what the model function returned
    fit,      \* the estimator being run: "scaled", "minerr" or "none"
    flux,     \* flux array (units of 1/Q)
    sigma,    \* sigma array (units of 1/Q)
    model,    \* model array (units of 1/Q)
    epc,      \* position in the estimator
    eret,     \* what the estimator returned
    s_min,    \* minerr_transit_fit: lower end of the bracket
    s_mid,    \* minerr_transit_fit: inner point of the bracket
    s_max,    \* minerr_transit_fit: upper end of the bracket
    fa,       \* _negloglike(s_min), in units of 1/2
    fb,       \* _negloglike(s_mid), in units of 1/2
    fc,       \* _negloglike(s_max), in units of 1/2
    s_opt,    \* minimum found by brent
    f_opt,    \* _f: _negloglike(s_opt), in units of 1/2
    s_hi,     \* upper end of the confidence search
    f_hi      \* _loglikediff(s_hi), in units of 1/2

kvars == <<fn, z, k, ca, pc, i, f, ret, err>>
wvars == <<caller, par, wpc, wret>>
mvars == <<s_min, s_mid, s_max, fa, fb, fc, s_opt, f_opt, s_hi, f_hi>>
evars == <<fit, flux, sigma, model, epc, eret, mvars>>
vars == <<kvars, wvars, evars, log>>

\* ----------------------------------------------------------------- values
Abs(x) == IF x < 0 THEN -x ELSE x

\* The log holds the entry e / an entry of kind tag.
Logged(e) == \E j \in 1..Len(log) : log[j] = e
LoggedKind(tag) == \E j \in 1..Len(log) : log[j][1] = tag

\* An exactly known flux n/Q.
Exact(n) == <<"exact", n>>
One == Exact(Q)
Zero == Exact(0)
NaN == <<"nan">>
NoRet == <<"none">>

\* np.ones_like(z)
ones_like(arr) == [j \in 1..Len(arr) |-> One]

\* ---------------------------------------------------------------- qpower2
\* Mutant: the elif of line 97 written as a plain else.
qpower2_branch_else(zt, kk) ==
    IF zt <= Q - kk THEN "full" ELSE "partial"

\* The branch qpower2 takes for zt = |z[i]| (lines 91 and 97).
qpower2_branch(zt, kk) ==
    IF zt <= Q - kk THEN "full"
    ELSE IF Abs(zt - Q) < kk THEN "partial"
    ELSE "none"

\* Mutant: the sample used as it comes, sign included.
qpower2_zt_signed(zi) == zi

\* zt = np.abs(zi)
qpower2_zt(zi) == Abs(zi)

\* The value written by the full-overlap branch: a closed form of zt, k, c, a.
qpower2_full(zt, kk, cc) == <<"qpower2_full", zt, kk, cc>>

\* The value written by the partial-overlap branch (2*zt is nonzero).
qpower2_partial(zt, kk, cc) == <<"qpower2_partial", zt, kk, cc>>

\* ---------------------------------------------------------------- ueclipse
\* Mutant: no guard on k.
ueclipse_invalid_never(kk) == FALSE

\* Mutant: the guard rejecting everything outside 0 < k < 1.
ueclipse_invalid_outside_unit(kk) == kk <= 0 \/ kk >= Q

\* if (k > 1): raise ValueError
ueclipse_invalid(kk) == kk > Q

\* zt = np.abs(zi)
ueclipse_zt(zi) == Abs(zi)

\* Mutant: the full-occultation test made strict.
ueclipse_branch_strict(zt, kk) ==
    IF zt < Q - kk THEN "full"
    ELSE IF Abs(zt - Q) < kk THEN "partial"
    ELSE "none"

\* The branch ueclipse takes for zt = |z[i]| (lines 264 and 266).
ueclipse_branch(zt, kk) ==
    IF zt <= Q - kk THEN "full"
    ELSE IF Abs(zt - Q) < kk THEN "partial"
    ELSE "none"

\* The value written by the partial branch: 1 - (k^2 t1 + t2 - t3)/(pi k^2).
ueclipse_partial(zt, kk) == <<"ueclipse_partial", zt, kk>>

\* The divisors of qpower2's partial branch: 2*zt (line 98) and k (line 103).
qpower2_divisors(zt, kk) == {2 * zt, kk}

\* The divisors of ueclipse's partial branch: 2*zt*k (line 267), 2*zt (line
\* 268) and pi*k**2 (line 270), which is zero when k*k is.
ueclipse_divisors(zt, kk) == {2 * zt * kk, 2 * zt, kk * kk}

\* ------------------------------------------------- the kernels as mappings
\* qpower2, lines 90-123: what the loop body leaves in f[i] for z[i] = zi
\* (nan where the partial branch divides by 2*zt = 0 without raising).
qpower2_elem(zi, kk, cc) ==
    LET zt == qpower2_zt(zi)
        br == qpower2_branch(zt, kk)
    IN  IF br = "full" THEN qpower2_full(zt, kk, cc)
        ELSE IF br = "partial"
             THEN (IF 0 \in qpower2_divisors(zt, kk) THEN NaN
                   ELSE qpower2_partial(zt, kk, cc))
             ELSE One

\* ueclipse, lines 263-270: what the loop body leaves in fl[i] for z[i] = zi.
ueclipse_elem(zi, kk) ==
    LET zt == ueclipse_zt(zi)
        br == ueclipse_branch(zt, kk)
    IN  IF br = "full" THEN Zero
        ELSE IF br = "partial"
             THEN (IF 0 \in ueclipse_divisors(zt, kk) THEN NaN
                   ELSE ueclipse_partial(zt, kk))
             ELSE One

\* The array a kernel returns for the array zz when it returns one.
kernel_array(name, zz, kk, cc) ==
    [j \in 1..Len(zz) |->
        IF name = "qpower2" THEN qpower2_elem(zz[j], kk, cc)
        ELSE ueclipse_elem(zz[j], kk)]

\* ------------------------------------------------------------ kernel steps
\* ueclipse, lines 258-259: the guard, before anything else.
ueclipse_check ==
    /\ fn = "ueclipse" /\ pc = "entry"
    /\ IF ueclipse_invalid(k)
       THEN /\ pc' = "raised"
            /\ err' = "ValueError"
            /\ log' = Append(log, <<"raise", "ValueError">>)
       ELSE /\ pc' = "alloc"
            /\ UNCHANGED <<err, log>>
    /\ UNCHANGED <<fn, z, k, ca, i, f, ret, wvars, evars>>

\* ueclipse, line 261: fl = np.ones_like(z)
ueclipse_alloc ==
    /\ fn = "ueclipse" /\ pc = "alloc"
    /\ f' = ones_like(z)
    /\ i' = 1
    /\ pc' = "loop"
    /\ log' = Append(log, <<"alloc", Len(z)>>)
    /\ UNCHANGED <<fn, z, k, ca, ret, err, wvars, evars>>

\* ueclipse, lines 262-270: one iteration of the loop over z.  A zero divisor
\* in the partial branch raises ZeroDivisionError in the compiled kernel and
\* leaves nan in the interpreted one.
ueclipse_iter ==
    /\ fn = "ueclipse" /\ pc = "loop" /\ i <= Len(z)
    /\ LET zt == ueclipse_zt(z[i])
           br == ueclipse_branch(zt, k)
       IN  \/ /\ br = "full"
              /\ f' = [f EXCEPT ![i] = Zero]
              /\ log' = Append(Append(log, <<"read", i>>), <<"write", i>>)
              /\ i' = i + 1
              /\ UNCHANGED <<pc, err>>
           \/ /\ br = "partial" /\ 0 \notin ueclipse_divisors(zt, k)
              /\ f' = [f EXCEPT ![i] = ueclipse_partial(zt, k)]
              /\ log' = Append(Append(log, <<"read", i>>), <<"write", i>>)
              /\ i' = i + 1
              /\ UNCHANGED <<pc, err>>
           \/ /\ br = "partial" /\ 0 \in ueclipse_divisors(zt, k)
              /\ \/ /\ pc' = "raised"
                    /\ err' = "ZeroDivisionError"
                    /\ log' = log \o << <<"read", i>>, <<"zerodiv", i>>,
                                       <<"raise", "ZeroDivisionError">> >>
                    /\ UNCHANGED <<f, i>>
                 \/ /\ f' = [f EXCEPT ![i] = NaN]
                    /\ log' = log \o << <<"read", i>>, <<"zerodiv", i>>,
                                       <<"write", i>> >>
                    /\ i' = i + 1
                    /\ UNCHANGED <<pc, err>>
           \/ /\ br = "none"
              /\ log' = Append(log, <<"read", i>>)
              /\ i' = i + 1
              /\ UNCHANGED <<f, pc, err>>
    /\ UNCHANGED <<fn, z, k, ca, ret, wvars, evars>>

\* qpower2, lines 86-88: f = np.ones_like(z); I_0; g
qpower2_alloc ==
    /\ fn = "qpower2" /\ pc = "entry"
    /\ f' = ones_like(z)
    /\ i' = 1
    /\ pc' = "loop"
    /\ log' = Append(log, <<"alloc", Len(z)>>)
    /\ UNCHANGED <<fn, z, k, ca, ret, err, wvars, evars>>

\* qpower2, lines 89-123: one iteration of the loop over z.  In the partial
\* branch d = (zt**2 - k**2 + 1)/(2*zt) divides by zero when zt = 0: the
\* compiled kernel raises ZeroDivisionError, the interpreted one stores nan.
qpower2_iter ==
    /\ fn = "qpower2" /\ pc = "loop" /\ i <= Len(z)
    /\ LET zt == qpower2_zt(z[i])
           br == qpower2_branch(zt, k)
       IN  \/ /\ br = "full"
              /\ f' = [f EXCEPT ![i] = qpower2_full(zt, k, ca)]
              /\ log' = Append(Append(log, <<"read", i>>), <<"write", i>>)
              /\ i' = i + 1
              /\ UNCHANGED <<pc, err>>
           \/ /\ br = "partial" /\ 0 \notin qpower2_divisors(zt, k)
              /\ f' = [f EXCEPT ![i] = qpower2_partial(zt, k, ca)]
              /\ log' = Append(Append(log, <<"read", i>>), <<"write", i>>)
              /\ i' = i + 1
              /\ UNCHANGED <<pc, err>>
           \/ /\ br = "partial" /\ 0 \in qpower2_divisors(zt, k)
              /\ \/ /\ pc' = "raised"
                    /\ err' = "ZeroDivisionError"
                    /\ log' = log \o << <<"read", i>>, <<"zerodiv", i>>,
                                       <<"raise", "ZeroDivisionError">> >>
                    /\ UNCHANGED <<f, i>>
                 \/ /\ f' = [f EXCEPT ![i] = NaN]
                    /\ log' = log \o << <<"read", i>>, <<"zerodiv", i>>,
                                       <<"write", i>> >>
                    /\ i' = i + 1
                    /\ UNCHANGED <<pc, err>>
           \/ /\ br = "none"
              /\ log' = Append(log, <<"read", i>>)
              /\ i' = i + 1
              /\ UNCHANGED <<f, pc, err>>
    /\ UNCHANGED <<fn, z, k, ca, ret, wvars, evars>>

\* return f / return fl (lines 124 and 271)
kernel_return ==
    /\ fn \in {"qpower2", "ueclipse"} /\ pc = "loop" /\ i > Len(z)
    /\ ret' = <<"array", f>>
    /\ pc' = "returned"
    /\ log' = Append(log, <<"return", fn>>)
    /\ UNCHANGED <<fn, z, k, ca, i, f, err, wvars, evars>>

KernelStep ==
    \/ ueclipse_check
    \/ ueclipse_alloc
    \/ ueclipse_iter
    \/ qpower2_alloc
    \/ qpower2_iter
    \/ kernel_return

\* --------------------------------------------------------- kernel inputs
\* No model function and no estimator is running.
WIdle == caller = "none" /\ par = <<>> /\ wpc = "idle" /\ wret = NoRet
\* The locals of minerr_transit_fit before they are assigned.
MUnset ==
    /\ s_min = <<0, 1>> /\ s_mid = <<0, 1>> /\ s_max = <<0, 1>>
    /\ fa = 0 /\ fb = 0 /\ fc = 0
    /\ s_opt = <<0, 1>> /\ f_opt = 0 /\ s_hi = <<0, 1>> /\ f_hi = 0
EIdle ==
    /\ fit = "none" /\ flux = <<>> /\ sigma = <<>> /\ model = <<>>
    /\ epc = "idle" /\ eret = NoRet
    /\ MUnset

ZGrid == (-ZMax..ZMax) \cup {Sentinel * Q, -(Sentinel * Q)}

RECURSIVE SeqsUpTo(_, _)
SeqsUpTo(S, n) ==
    IF n = 0 THEN {<<>>}
    ELSE LET shorter == SeqsUpTo(S, n - 1)
         IN  shorter \cup {Append(s, x) : s \in {t \in shorter : Len(t) = n - 1}, x \in S}

\* <<c, a>> in tenths: the documented example c = 0.5, a = 0.7, and one more.
CASet == {<<5, 7>>, <<8, 5>>}

\* k handed to ueclipse: negative, zero, the valid range, 1 and beyond.
UeclipseK == -1..(Q + 1)
\* k handed to qpower2: negative, zero, the valid range, 1 and beyond; the
\* kernel tests none of them.
Qpower2K == -1..(Q + 1)

InitKernel ==
    /\ fn \in {"qpower2", "ueclipse"}
    /\ z \in SeqsUpTo(ZGrid, MaxLen)
    /\ IF fn = "qpower2"
       THEN k \in Qpower2K /\ ca \in CASet
       ELSE k \in UeclipseK /\ ca = <<0, 0>>
    /\ pc = "entry"
    /\ i = 0
    /\ f = <<>>
    /\ ret = NoRet
    /\ err = ""
    /\ log = <<>>
    /\ WIdle
    /\ EIdle

NextKernel == KernelStep

SpecKernel == InitKernel /\ [][NextKernel]_vars

\* ---------------------------------------------------------- exact reals
RECURSIVE GCD(_, _)
GCD(x, y) == IF y = 0 THEN x ELSE GCD(y, x % y)

\* The fraction n/d (d # 0) in lowest terms with a positive denominator.
Frac(n, d) ==
    LET g == GCD(Abs(n), Abs(d))
        sgn == IF d < 0 THEN -1 ELSE 1
    IN  <<(sgn * n) \div g, (sgn * d) \div g>>

RInt(n) == <<n, 1>>
\* Sums and comparisons go through the least common denominator.
RAdd(x, y) ==
    LET g == GCD(x[2], y[2])
    IN  Frac(x[1] * (y[2] \div g) + y[1] * (x[2] \div g), x[2] * (y[2] \div g))
RNeg(x) == <<-x[1], x[2]>>
RSub(x, y) == RAdd(x, RNeg(y))
RMul(x, y) == Frac(x[1] * y[1], x[2] * y[2])
\* x / y for y # 0
RDiv(x, y) == Frac(x[1] * y[2], x[2] * y[1])
RIsZero(x) == x[1] = 0
RPos(x) == x[1] > 0
RLt(x, y) == RSub(x, y)[1] < 0
RLe(x, y) == RSub(x, y)[1] <= 0

\* The real number a grid value n stands for: n/Q.
Grid(n) == Frac(n, Q)

RECURSIVE RSum(_)
\* np.sum of an array of fractions
RSum(xs) == IF xs = <<>> THEN RInt(0) ELSE RAdd(xs[1], RSum(Tail(xs)))

\* The largest r with r*r <= n (n >= 0).
RECURSIVE ISqrtUp(_, _)
ISqrtUp(n, r) == IF (r + 1) * (r + 1) > n THEN r ELSE ISqrtUp(n, r + 1)
ISqrt(n) == ISqrtUp(n, 0)
IsSquare(n) == ISqrt(n) * ISqrt(n) = n

\* np.sqrt of a fraction x >= 0: the fraction itself when x is a square of
\* one, else the term sqrt(x).  np.sqrt(0) is the fraction 0.
np_sqrt(x) ==
    IF IsSquare(x[1]) /\ IsSquare(x[2])
    THEN <<"rat", Frac(ISqrt(x[1]), ISqrt(x[2]))>>
    ELSE <<"sqrt", x>>

\* A finite real known as a fraction.
Real(x) == <<"rat", x>>
\* np.nan as a returned number.
np_nan == <<"nan", <<0, 1>>>>
IsFinite(v) == v[1] \in {"rat", "sqrt"}

\* ------------------------------------------------------ scaled_transit_fit
\* if N < 3 (line 147)
stf_too_few(N) == N < 3

\* w = 1/sigma**2 (line 150), sigma > 0
stf_w(sg) == [j \in 1..Len(sg) |-> RDiv(RInt(1), RMul(Grid(sg[j]), Grid(sg[j])))]

\* model - 1, flux - 1
minus_one(arr) == [j \in 1..Len(arr) |-> RSub(Grid(arr[j]), RInt(1))]

\* _m = np.sum(w*(model-1)**2) (line 151)
stf_m(sg, md) ==
    LET w == stf_w(sg)
        m1 == minus_one(md)
    IN  RSum([j \in 1..Len(md) |-> RMul(w[j], RMul(m1[j], m1[j]))])

\* s = np.sum(w*(model-1)*(flux-1))/_m (line 154), _m # 0
stf_s(fl, sg, md) ==
    LET w == stf_w(sg)
        m1 == minus_one(md)
        f1 == minus_one(fl)
    IN  RDiv(RSum([j \in 1..Len(fl) |-> RMul(RMul(w[j], m1[j]), f1[j])]),
             stf_m(sg, md))

\* chisq = np.sum(w*((flux-1)-s*(model-1))**2) (line 155)
stf_chisq(fl, sg, md) ==
    LET w == stf_w(sg)
        m1 == minus_one(md)
        f1 == minus_one(fl)
        s == stf_s(fl, sg, md)
        res == [j \in 1..Len(fl) |-> RSub(f1[j], RMul(s, m1[j]))]
    IN  RSum([j \in 1..Len(fl) |-> RMul(w[j], RMul(res[j], res[j]))])

\* b**2 = chisq/N (line 156: b = np.sqrt(chisq/N))
stf_bsq(fl, sg, md) == RDiv(stf_chisq(fl, sg, md), RInt(Len(fl)))

\* The curvature term with 2*chisq in place of 3*chisq.
stf_t_two(fl, sg, md) ==
    LET bsq == stf_bsq(fl, sg, md)
    IN  RSub(RDiv(RMul(RInt(2), stf_chisq(fl, sg, md)), RMul(bsq, bsq)),
             RDiv(RInt(Len(fl)), bsq))

\* _t = 3*chisq/b**4 - N/b**2 (line 158), b # 0
stf_t(fl, sg, md) ==
    LET bsq == stf_bsq(fl, sg, md)
    IN  RSub(RDiv(RMul(RInt(3), stf_chisq(fl, sg, md)), RMul(bsq, bsq)),
             RDiv(RInt(Len(fl)), bsq))

\* return np.nan, np.nan, np.nan, np.nan
stf_nan4 == <<"tuple", np_nan, np_nan, np_nan, np_nan>>

\* scaled_transit_fit, lines 146-163, run from call to return.  Line 158
\* divides by b**4 and b**2: with b = 0 the compiled function (numba's
\* default error model) raises ZeroDivisionError, the interpreted one gets
\* _t = nan, fails the _t > 0 test and returns the nan tuple.
scaled_transit_fit ==
    /\ fit = "scaled" /\ epc = "entry"
    /\ LET N == Len(flux)
       IN  IF stf_too_few(N) \/ RIsZero(stf_m(sigma, model))
           THEN /\ eret' = stf_nan4
                /\ epc' = "returned"
                /\ UNCHANGED err
           ELSE LET s == stf_s(flux, sigma, model)
                    bsq == stf_bsq(flux, sigma, model)
                IN  IF RIsZero(bsq)
                    THEN \/ /\ err' = "ZeroDivisionError"
                            /\ epc' = "raised"
                            /\ UNCHANGED eret
                         \/ /\ eret' = stf_nan4
                            /\ epc' = "returned"
                            /\ UNCHANGED err
                    ELSE /\ eret' =
                              IF RPos(stf_t(flux, sigma, model))
                              THEN <<"tuple", Real(s), np_sqrt(bsq),
                                     np_sqrt(RDiv(bsq, stf_m(sigma, model))),
                                     np_sqrt(RDiv(RInt(1), stf_t(flux, sigma, model)))>>
                              ELSE stf_nan4
                         /\ epc' = "returned"
                         /\ UNCHANGED err
    /\ log' = Append(log, <<"done", "scaled_transit_fit">>)
    /\ UNCHANGED <<fn, z, k, ca, pc, i, f, ret, wvars, fit, flux, sigma, model, mvars>>

\* ------------------------------------------------------- estimator inputs
\* Flux and model samples: 1 and the values down to 1 - FluxDepth/Q.
FluxGrid == (Q - FluxDepth)..Q
\* Standard errors, positive.
SigmaGrid == 1..2

SeqsOfLen(S, n) == {t \in SeqsUpTo(S, n) : Len(t) = n}

KIdle ==
    /\ fn = "none" /\ z = <<>> /\ k = 0 /\ ca = <<0, 0>> /\ pc = "idle"
    /\ i = 0 /\ f = <<>> /\ ret = NoRet /\ err = ""

\* The arrays handed to scaled_transit_fit: a flux array whose first two
\* samples may differ from the rest, a model array and a sigma array whose
\* first sample may differ from the rest.
InitScaled ==
    /\ fit = "scaled"
    /\ \E n \in 0..MaxN :
          /\ \E x \in FluxGrid, y \in FluxGrid, w \in FluxGrid :
                flux = [j \in 1..n |-> IF j = 1 THEN x ELSE IF j = 2 THEN y ELSE w]
          /\ \E u \in FluxGrid, v \in FluxGrid :
                model = [j \in 1..n |-> IF j = 1 THEN u ELSE v]
          /\ \E sg \in SigmaGrid, sh \in SigmaGrid :
                sigma = [j \in 1..n |-> IF j = 1 THEN sg ELSE sh]
    /\ epc = "entry"
    /\ eret = NoRet
    /\ MUnset
    /\ log = <<>>
    /\ KIdle
    /\ WIdle

NextScaled == scaled_transit_fit

SpecScaled == InitScaled /\ [][NextScaled]_vars

\* ------------------------------------------------------ minerr_transit_fit
\* _negloglike (lines 196-203) is a sum of logarithms of the residuals: its
\* values are kept in units of 0.5 / HalfLog and each evaluation at a new point may
\* give any of them.  The values at s_min, s_mid, s_max are fa, fb, fc.
NllLevels == 0..NllMax

RECURSIVE Pow2(_)
Pow2(n) == IF n = 0 THEN 1 ELSE 2 * Pow2(n - 1)

\* 2**-16 (line 228)
HalvingFloor == Frac(1, Pow2(16))

\* Mutants: the size test of line 193 off by one, either way.
minerr_too_few_lt2(N) == N < 2
minerr_too_few_le3(N) == N <= 3

\* if N < 3 (line 193)
minerr_too_few(N) == N < 3

RECURSIVE np_min(_)
\* np.min of a non-empty array
np_min(arr) ==
    IF Len(arr) = 1 THEN arr[1]
    ELSE LET m == np_min(Tail(arr)) IN IF arr[1] < m THEN arr[1] ELSE m

\* if np.min(model) == 1 (line 208)
minerr_flat(md) == np_min(md) = Q

\* return np.nan, np.nan (line 194)
minerr_nan2 == <<"tuple", np_nan, np_nan>>
\* return 0,0 (lines 209, 229)
minerr_zero2 == <<"tuple", Real(RInt(0)), Real(RInt(0))>>

\* lines 192-194
minerr_size ==
    /\ fit = "minerr" /\ epc = "entry"
    /\ IF minerr_too_few(Len(flux))
       THEN /\ eret' = minerr_nan2
            /\ epc' = "returned"
            /\ log' = Append(log, <<"return", "nan">>)
       ELSE /\ epc' = "flat"
            /\ UNCHANGED <<eret, log>>
    /\ UNCHANGED <<kvars, wvars, fit, flux, sigma, model, mvars>>

\* lines 208-209
minerr_flat_check ==
    /\ fit = "minerr" /\ epc = "flat"
    /\ IF minerr_flat(model)
       THEN /\ eret' = minerr_zero2
            /\ epc' = "returned"
            /\ log' = Append(Append(log, <<"min", "model">>), <<"return", "zero">>)
       ELSE /\ epc' = "bracket"
            /\ log' = Append(log, <<"min", "model">>)
            /\ UNCHANGED eret
    /\ UNCHANGED <<kvars, wvars, fit, flux, sigma, model, mvars>>

\* lines 211-218 and 223-226: _negloglike at 0 and 1, then at 2 when s = 1
\* is the better, else at 0.5.
minerr_bracket_start ==
    /\ fit = "minerr" /\ epc = "bracket"
    /\ \E va \in NllLevels, vb \in NllLevels, vn \in NllLevels :
          /\ s_min' = RInt(0)
          /\ fa' = va
          /\ IF vb < va
             THEN /\ s_mid' = RInt(1) /\ fb' = vb
                  /\ s_max' = RInt(2) /\ fc' = vn
                  /\ epc' = "doubling"
                  /\ log' = log \o << <<"negloglike", RInt(0)>>,
                                     <<"negloglike", RInt(1)>>,
                                     <<"negloglike", RInt(2)>> >>
             ELSE /\ s_max' = RInt(1) /\ fc' = vb
                  /\ s_mid' = Frac(1, 2) /\ fb' = vn
                  /\ epc' = "halving"
                  /\ log' = log \o << <<"negloglike", RInt(0)>>,
                                     <<"negloglike", RInt(1)>>,
                                     <<"negloglike", Frac(1, 2)>> >>
    /\ UNCHANGED <<kvars, wvars, fit, flux, sigma, model, eret,
                   s_opt, f_opt, s_hi, f_hi>>

\* A loop test that also goes on when the two values are equal.
minerr_keep_doubling_le(vc, vb) == vc <= vb

\* line 219: the test of the doubling loop, `while fc < fb`
minerr_keep_doubling(vc, vb) == vc < vb

\* A loop test that also goes on when the two values are equal.
minerr_keep_halving_ge(vb, va) == vb >= va

\* line 227: the test of the halving loop, `while fb > fa`
minerr_keep_halving(vb, va) == vb > va

\* A floor test one halving lower, 2**-17.
minerr_below_floor_half(s) == RLt(s, Frac(1, Pow2(17)))

\* line 228: the test made before each further halving, `s_mid < 2**-16`
minerr_below_floor(s) == RLt(s, HalvingFloor)

\* lines 219-221: while fc < fb, double s_max (followed as far as 2^MaxPow)
minerr_double ==
    /\ fit = "minerr" /\ epc = "doubling"
    /\ IF minerr_keep_doubling(fc, fb)
       THEN /\ RLt(s_max, RInt(Pow2(MaxPow)))
            /\ s_max' = RMul(RInt(2), s_max)
            /\ fc' \in NllLevels
            /\ log' = Append(log, <<"negloglike", s_max'>>)
            /\ UNCHANGED epc
       ELSE /\ epc' = "brent"
            /\ UNCHANGED <<s_max, fc, log>>
    /\ UNCHANGED <<kvars, wvars, fit, flux, sigma, model, eret,
                   s_min, s_mid, fa, fb, s_opt, f_opt, s_hi, f_hi>>

\* lines 227-231: while fb > fa, give up below 2**-16, else halve s_mid
minerr_halve ==
    /\ fit = "minerr" /\ epc = "halving"
    /\ IF minerr_keep_halving(fb, fa)
       THEN IF minerr_below_floor(s_mid)
            THEN /\ eret' = minerr_zero2
                 /\ epc' = "returned"
                 /\ log' = Append(log, <<"return", "zero">>)
                 /\ UNCHANGED <<s_mid, fb>>
            ELSE /\ s_mid' = RMul(Frac(1, 2), s_mid)
                 /\ fb' \in NllLevels
                 /\ log' = Append(log, <<"negloglike", s_mid'>>)
                 /\ UNCHANGED <<epc, eret>>
       ELSE /\ epc' = "brent"
            /\ UNCHANGED <<s_mid, fb, eret, log>>
    /\ UNCHANGED <<kvars, wvars, fit, flux, sigma, model,
                   s_min, s_max, fa, fc, s_opt, f_opt, s_hi, f_hi>>

\* The points brent may hand back for the bracket: the inner point or a
\* point on either side of it, strictly inside the bracket.
brent_points == {s_mid, RMul(Frac(1, 2), RAdd(s_min, s_mid)),
                 RMul(Frac(1, 2), RAdd(s_mid, s_max))}

\* lines 234-238: brent (scipy) refuses a bracket whose inner value is not
\* strictly the lowest; else it hands back a point of the bracket whose
\* value is no higher than fb.  Then loglike_0, s_hi = s_max and
\* f_hi = loglike_0 + _negloglike(s_hi) = fc - _f - 0.5.
minerr_loglike_0_unit(fmin) == -fmin - 2 * HalfLog

\* line 236: loglike_0 = -_f - 0.5
minerr_loglike_0(fmin) == -fmin - HalfLog

\* lines 205-206: _loglikediff(s, loglike_0, ...) = loglike_0 + _negloglike(s),
\* as a function of the likelihood value v at s
minerr_loglikediff(v, loglike_0) == loglike_0 + v

\* A loop test that also goes on at f_hi = 0.
minerr_keep_widening_le(fh) == fh <= 0

\* line 239: the test of the confidence loop, `while f_hi < 0`
minerr_keep_widening(fh) == fh < 0

minerr_brent ==
    /\ fit = "minerr" /\ epc = "brent"
    /\ IF fb < fa /\ fb < fc
       THEN /\ \E so \in brent_points, fo \in 0..fb :
                  /\ (so = s_mid => fo = fb)
                  /\ s_opt' = so
                  /\ f_opt' = fo
                  /\ f_hi' = minerr_loglikediff(fc, minerr_loglike_0(fo))
            /\ s_hi' = s_max
            /\ epc' = "confidence"
            /\ log' = Append(Append(log, <<"brent", s_min, s_mid, s_max>>),
                             <<"negloglike", s_max>>)
            /\ UNCHANGED err
       ELSE /\ epc' = "raised"
            /\ err' = "ValueError"
            /\ log' = Append(log, <<"brent", s_min, s_mid, s_max>>)
            /\ UNCHANGED <<s_opt, f_opt, s_hi, f_hi>>
    /\ UNCHANGED <<fn, z, k, ca, pc, i, f, ret, wvars, fit, flux, sigma, model,
                   eret, s_min, s_mid, s_max, fa, fb, fc>>

\* lines 239-241: while f_hi < 0, double s_hi (followed as far as 2^MaxPow)
minerr_confidence ==
    /\ fit = "minerr" /\ epc = "confidence"
    /\ IF minerr_keep_widening(f_hi)
       THEN /\ RLt(s_hi, RInt(Pow2(MaxPow)))
            /\ s_hi' = RMul(RInt(2), s_hi)
            /\ \E v \in NllLevels :
                  f_hi' = minerr_loglikediff(v, minerr_loglike_0(f_opt))
            /\ log' = Append(log, <<"negloglike", s_hi'>>)
            /\ UNCHANGED epc
       ELSE /\ epc' = "brentq"
            /\ UNCHANGED <<s_hi, f_hi, log>>
    /\ UNCHANGED <<kvars, wvars, fit, flux, sigma, model, eret,
                   s_min, s_mid, s_max, fa, fb, fc, s_opt, f_opt>>

\* lines 242-246: brentq hands back a root of _loglikediff in (s_opt, s_hi],
\* s_hi itself when f_hi = 0; s_err = s_hi - s_opt.
minerr_brentq ==
    /\ fit = "minerr" /\ epc = "brentq"
    /\ \E root \in {s_hi, RMul(Frac(1, 2), RAdd(s_opt, s_hi))} :
          /\ (f_hi = 0 => root = s_hi)
          /\ s_hi' = root
          /\ eret' = <<"tuple", Real(s_opt), Real(RSub(root, s_opt))>>
    /\ f_hi' = 0
    /\ epc' = "returned"
    /\ log' = Append(Append(log, <<"brentq", s_opt, s_hi>>), <<"return", "fit">>)
    /\ UNCHANGED <<kvars, wvars, fit, flux, sigma, model,
                   s_min, s_mid, s_max, fa, fb, fc, s_opt, f_opt>>

\* Flux samples and model samples handed to minerr_transit_fit: a flux
\* array and a model array whose first sample may differ from the rest, one
\* sigma for all samples; a model sample may lie above 1.
MinerrFluxGrid == {Q - 1, Q}
MinerrModelGrid == {Q - 1, Q, Q + 1}

InitMinerr ==
    /\ fit = "minerr"
    /\ \E n \in 0..MaxN :
          /\ \E x \in MinerrFluxGrid, y \in MinerrFluxGrid :
                flux = [j \in 1..n |-> IF j = 1 THEN x ELSE y]
          /\ \E u \in MinerrModelGrid, v \in MinerrModelGrid :
                model = [j \in 1..n |-> IF j = 1 THEN u ELSE v]
          /\ \E sg \in SigmaGrid : sigma = [j \in 1..n |-> sg]
    /\ epc = "entry"
    /\ eret = NoRet
    /\ MUnset
    /\ log = <<>>
    /\ KIdle
    /\ WIdle

NextMinerr ==
    \/ minerr_size
    \/ minerr_flat_check
    \/ minerr_bracket_start
    \/ minerr_double
    \/ minerr_halve
    \/ minerr_brent
    \/ minerr_confidence
    \/ minerr_brentq

SpecMinerr == InitMinerr /\ [][NextMinerr]_vars

\* ------------------------------------------- TransitModel, EclipseModel
\* par holds the arguments of _transit_func / _eclipse_func that decide the
\* control flow: D in units of 1/Q^2, S, h_1, h_2, L in units of 1/Q, W as
\* pi*W in units of 1/Q, and n = len(t).  T_0, P, f_c, f_s, a_c only travel
\* on to t2z.

\* if D <= 0 (lines 319, 413)
model_D_invalid(D) == D <= 0

\* k = np.sqrt(D) in units of 1/Q, for D the square of a grid value
model_k(D) == ISqrt(D)

\* Mutant: the limit on k taken as 1 instead of 0.5.
model_k_too_big_above_one(kk) == kk > Q

\* if k > 0.5 (lines 322, 416)
model_k_too_big(kk) == 2 * kk > Q

\* if (1-S) <= 0 (lines 324, 418)
model_S_invalid(S) == RLe(RSub(RInt(1), Grid(S)), RInt(0))

\* bsq = ((1-k)**2 - S*(1+k)**2) / (1-S) (lines 326, 420), S < 1
model_bsq(kk, S) ==
    LET omk == RSub(RInt(1), Grid(kk))
        opk == RAdd(RInt(1), Grid(kk))
    IN  RDiv(RSub(RMul(omk, omk), RMul(Grid(S), RMul(opk, opk))),
             RSub(RInt(1), Grid(S)))

\* q = (1+k)**2 - bsq (lines 330, 424)
model_q(kk, S) ==
    LET opk == RAdd(RInt(1), Grid(kk))
    IN  RSub(RMul(opk, opk), model_bsq(kk, S))

\* r_star**2 for r_star = np.pi * W / np.sqrt(q) (lines 333, 427), q > 0
model_r_star_sq(kk, S, piW) ==
    RDiv(RMul(Grid(piW), Grid(piW)), model_q(kk, S))

\* q = 1 - (b*r_star)**2 with b = np.sqrt(bsq) (lines 329-334, 423-428)
model_q_sini(kk, S, piW) ==
    RSub(RInt(1), RMul(model_bsq(kk, S), model_r_star_sq(kk, S, piW)))

\* The tests of lines 319-336 (413-430), in the order of the code: TRUE when
\* one of them returns np.ones_like(t).
model_geometry_invalid(p) ==
    IF model_D_invalid(p.D) THEN TRUE
    ELSE IF model_k_too_big(model_k(p.D)) THEN TRUE
    ELSE IF model_S_invalid(p.S) THEN TRUE
    ELSE IF RLt(model_bsq(model_k(p.D), p.S), RInt(0)) THEN TRUE
    ELSE IF RLe(model_q(model_k(p.D), p.S), RInt(0)) THEN TRUE
    ELSE RLe(model_q_sini(model_k(p.D), p.S, p.W), RInt(0))

\* if (h_1 <= 0) or (h_2 <= 0) or (h_2 > h_1) or (h_1 >= 1) (line 338)
transit_h_invalid(h_1, h_2) ==
    (h_1 <= 0) \/ (h_2 <= 0) \/ (h_2 > h_1) \/ (h_1 >= Q)

\* c2 = 1 - h_1 + h_2; a2 = np.log2(c2/h_2) (lines 340-341): c2 in units of
\* 1/Q, a2 as a term.
transit_ca(h_1, h_2) == <<Q - h_1 + h_2, <<"log2", Q - h_1 + h_2, h_2>>>>

\* np.ones_like(t)
ones_of(n) == [j \in 1..n |-> One]

\* _transit_func lines 319-339 / _eclipse_func lines 413-430: the parameter
\* tests, up to the return of the flat model or the call of t2z.
model_validate ==
    /\ caller \in {"TransitModel", "EclipseModel"} /\ wpc = "entry"
    /\ IF \/ model_geometry_invalid(par)
          \/ (caller = "TransitModel" /\ transit_h_invalid(par.h_1, par.h_2))
       THEN /\ wret' = <<"array", ones_of(par.n)>>
            /\ wpc' = "returned"
            /\ log' = Append(log, <<"return", caller>>)
       ELSE /\ wpc' = "t2z"
            /\ UNCHANGED <<wret, log>>
    /\ UNCHANGED <<kvars, caller, par, evars>>

\* Separations t2z hands back.
T2zGrid == {0, Q - 1, Q, Q + 1, 2 * Q}

\* z[m] = 9999 (line 346) / z[~m] = 9999 (line 435)
set_hidden(zz, m, hide) ==
    [j \in 1..Len(zz) |-> IF m[j] = hide THEN Sentinel * Q ELSE zz[j]]

\* Lines 342-347 / 432-436 up to the call of the kernel: t2z (an external
\* routine) hands back any separations z and mask m of the shape of t; the
\* hidden samples are set to 9999 and the kernel is entered.
model_call_kernel ==
    /\ caller \in {"TransitModel", "EclipseModel"} /\ wpc = "t2z"
    /\ \E zz \in SeqsOfLen(T2zGrid, par.n), m \in SeqsOfLen(BOOLEAN, par.n) :
          z' = set_hidden(zz, m, caller = "TransitModel")
    /\ fn' = IF caller = "TransitModel" THEN "qpower2" ELSE "ueclipse"
    /\ k' = model_k(par.D)
    /\ ca' = IF caller = "TransitModel" THEN transit_ca(par.h_1, par.h_2)
             ELSE <<0, 0>>
    /\ pc' = "entry"
    /\ wpc' = "kernel"
    /\ log' = Append(Append(log, <<"call", "t2z", 0>>), <<"call", fn', k'>>)
    /\ UNCHANGED <<i, f, ret, err, caller, par, wret, evars>>

\* 1 + L*(fl - 1) for one sample (line 436), L in units of 1/Q
eclipse_scale(L, v) ==
    IF v = One THEN One
    ELSE IF v = Zero THEN Exact(Q - L)
    ELSE <<"eclipse_scaled", L, v>>

\* return qpower2(z, k, c2, a2) (line 347) / return 1 + L*(ueclipse(z, k)-1)
\* (line 436); an exception of the kernel leaves the model function too.
model_return ==
    /\ caller \in {"TransitModel", "EclipseModel"} /\ wpc = "kernel"
    /\ pc \in {"returned", "raised"}
    /\ IF pc = "raised"
       THEN /\ wpc' = "raised"
            /\ UNCHANGED wret
            /\ log' = Append(log, <<"raise", err>>)
       ELSE /\ wpc' = "returned"
            /\ wret' = IF caller = "TransitModel" THEN ret
                       ELSE <<"array", [j \in 1..Len(ret[2]) |->
                                           eclipse_scale(par.L, ret[2][j])]>>
            /\ log' = Append(log, <<"return", caller>>)
    /\ UNCHANGED <<kvars, caller, par, evars>>

\* ------------------------------------------------- model function inputs
\* D: negative, zero, and the squares of k = 1/Q .. 1/2 + 1/Q
DGrid == {-1, 0} \cup {kk * kk : kk \in 1..((Q \div 2) + 1)}
\* S: negative, the unit interval, and beyond 1
SGrid == -1..(Q + 1)
\* pi*W: a short and a long transit
WGrid == {1, Q + 2}
\* h_1, h_2
HGrid == {0, 1, 2, Q}
\* L
LGrid == {1, Q}
InitModel ==
    /\ caller \in {"TransitModel", "EclipseModel"}
    /\ \E D \in DGrid, S \in SGrid, W \in WGrid, n \in 0..MaxLen :
          IF caller = "TransitModel"
          THEN \E h_1 \in HGrid, h_2 \in HGrid :
                  par = [D |-> D, W |-> W, S |-> S, h_1 |-> h_1, h_2 |-> h_2,
                         L |-> 0, n |-> n]
          ELSE \E L \in LGrid :
                  par = [D |-> D, W |-> W, S |-> S, h_1 |-> 0, h_2 |-> 0,
                         L |-> L, n |-> n]
    /\ wpc = "entry"
    /\ wret = NoRet
    /\ log = <<>>
    /\ KIdle
    /\ EIdle

NextModel ==
    \/ model_validate
    \/ model_call_kernel
    \/ model_return
    \/ KernelStep

SpecModel == InitModel /\ [][NextModel]_vars

\* ======================================================== claims: kernels
Neg(zz) == [j \in 1..Len(zz) |-> -zz[j]]
KernelRuns == fn \in {"qpower2", "ueclipse"}
ValidK == 0 < k /\ k < Q

\* C1: for 0 < k < 1, a sample with |z[i]| > 1+k has flux exactly 1 in both
\* kernels at every moment from allocation to return, the loop never writes
\* f[i], and the sentinel 9999 is such a sample.
C1_NoOverlapStaysOne ==
    (KernelRuns /\ ValidK /\ pc \in {"loop", "returned"}) =>
        \A j \in 1..Len(z) :
            (Abs(z[j]) > Q + k \/ Abs(z[j]) = Sentinel * Q) =>
                /\ f[j] = One
                /\ ~Logged(<<"write", j>>)
                /\ (pc = "returned" => ret[2][j] = One)

\* C1 witness: both kernels have returned an array holding a sentinel sample
\* (flux 1) next to a sample the loop did write.
C1_Witness ==
    /\ KernelRuns /\ ValidK /\ pc = "returned" /\ Len(z) = 2
    /\ z[1] = Sentinel * Q /\ ret[2][1] = One
    /\ Abs(z[2]) = Q + k - 1 /\ Logged(<<"write", 2>>)

\* C2: ueclipse with k > 1 raises ValueError as its first step, for every z
\* (the empty one too): nothing is allocated, no element is read, nothing
\* is returned.
C2_RaisesBeforeArrayWork ==
    /\ [](fn = "ueclipse" /\ k > Q =>
            /\ pc \in {"entry", "raised"}
            /\ (pc = "raised" => err = "ValueError")
            /\ ~LoggedKind("alloc") /\ ~LoggedKind("read") /\ ~LoggedKind("write")
            /\ f = <<>> /\ i = 0 /\ ret = NoRet)
    /\ [][(fn = "ueclipse" /\ k > Q /\ pc = "entry") => pc' = "raised"]_vars

\* C2 witness: ueclipse has raised on k > 1, once for an empty z and (in
\* another run) for a non-empty one.
C2_Witness ==
    fn = "ueclipse" /\ k > Q /\ pc = "raised" /\ err = "ValueError" /\ z = <<>>

\* C3 as claimed: ueclipse never returns a flux array for a k outside
\* 0 < k < 1 (negative, zero, or >= 1).
C3_AsClaimed ==
    (fn = "ueclipse" /\ (k <= 0 \/ k >= Q)) => ret = NoRet

\* C3 amended: ueclipse raises only for k > 1; for every k <= 1 (negative k,
\* k = 0 and k = 1 included) it raises nothing and returns an array as long
\* as z.
C3_RaisesOnlyAboveOne ==
    fn = "ueclipse" =>
        /\ (pc = "raised" => k > Q)
        /\ (k <= Q => err = "")
        /\ ((k <= Q /\ pc = "returned") =>
                ret[1] = "array" /\ Len(ret[2]) = Len(z))
        /\ (k > Q => ret = NoRet)

\* C3 witness: ueclipse has returned an array for a negative k.
C3_Witness ==
    fn = "ueclipse" /\ k < 0 /\ pc = "returned" /\ ret[1] = "array" /\ Len(z) > 0

\* C9: for 0 < k < 1, ueclipse leaves exactly 0 at every sample with
\* |z[i]| <= 1-k, the boundary |z[i]| = 1-k included.
C9_FullOccultationIsZero ==
    (fn = "ueclipse" /\ ValidK /\ pc \in {"loop", "returned"}) =>
        \A j \in 1..Len(z) :
            Abs(z[j]) <= Q - k =>
                /\ (j < i => f[j] = Zero)
                /\ (pc = "returned" => ret[2][j] = Zero)

\* C9 witness: ueclipse has returned 0 for a sample on the boundary
\* |z| = 1-k and for one strictly inside.
C9_Witness ==
    /\ fn = "ueclipse" /\ ValidK /\ pc = "returned" /\ Len(z) = 2
    /\ z[1] = -(Q - k) /\ ret[2][1] = Zero
    /\ z[2] = 0 /\ ret[2][2] = Zero

\* C10: what a kernel returns for z is what it returns for -z, element by
\* element, and element i is the loop body's value for z[i] alone: samples
\* of equal |z| get equal flux wherever they stand in the array.
C10_DependsOnAbsZOnly ==
    (KernelRuns /\ pc = "returned") =>
        /\ ret[2] = kernel_array(fn, Neg(z), k, ca)
        /\ \A j, l \in 1..Len(z) : Abs(z[j]) = Abs(z[l]) => ret[2][j] = ret[2][l]

\* C10 witness: a kernel has returned for an array holding a negative sample
\* in the partial-overlap branch next to a different sample.
C10_Witness ==
    /\ KernelRuns /\ pc = "returned" /\ Len(z) = 2
    /\ z[1] < 0 /\ z[1] # -z[2]
    /\ ret[2][1] \notin {One, Zero}

\* The branch the running kernel takes for sample j.
C16_Branch(j) ==
    IF fn = "qpower2" THEN qpower2_branch(qpower2_zt(z[j]), k)
    ELSE ueclipse_branch(ueclipse_zt(z[j]), k)

\* The divisors the running kernel's partial branch uses for sample j.
C16_Divisors(j) ==
    IF fn = "qpower2" THEN qpower2_divisors(qpower2_zt(z[j]), k)
    ELSE ueclipse_divisors(ueclipse_zt(z[j]), k)

\* Sample j has been through the loop body.
C16_Processed(j) == pc \in {"loop", "return", "returned"} /\ j < i

\* C16: in both kernels the tests |z| <= 1-k and ||z|-1| < k never hold
\* together and each processed sample took exactly one of the three
\* branches (written by the first two, left alone by the third); for
\* 0 < k <= 1 a sample of the partial branch has 1-k < |z| < 1+k, so
\* |z| > 0 and none of the branch's divisors is zero; a zero divisor is met
\* in the partial branch only by qpower2 with k > 1 and z = 0.
C16_NoZeroDivisorInDomain ==
    KernelRuns =>
        \A j \in 1..Len(z) :
            LET zt == Abs(z[j])
                full == zt <= Q - k
                partial == Abs(zt - Q) < k
                br == C16_Branch(j)
            IN  /\ ~(full /\ partial)
                /\ br = "full" <=> full
                /\ br = "partial" <=> partial
                /\ br = "none" <=> (~full /\ ~partial)
                /\ C16_Processed(j) =>
                       (Logged(<<"write", j>>) <=> br \in {"full", "partial"})
                /\ (0 < k /\ k <= Q /\ br = "partial") =>
                       /\ zt > 0 /\ Q - k < zt /\ zt < Q + k
                       /\ 0 \notin C16_Divisors(j)
                       /\ ~Logged(<<"zerodiv", j>>)
                /\ Logged(<<"zerodiv", j>>) =>
                       (fn = "qpower2" /\ k > Q /\ z[j] = 0 /\ br = "partial")

\* qpower2 with k > 1 has taken a sample of 1-k < |z| < 1+k through the
\* partial branch and then met the zero divisor at z = 0.
C16_ZeroDivisorReached ==
    /\ fn = "qpower2" /\ k > Q /\ Len(z) = 2
    /\ z[1] # 0 /\ C16_Branch(1) = "partial" /\ Logged(<<"write", 1>>)
    /\ z[2] = 0 /\ Logged(<<"zerodiv", 2>>)

\* ueclipse with 0 < k <= 1 has written a sample of the partial branch.
C16_Witness ==
    /\ fn = "ueclipse" /\ 0 < k /\ k <= Q /\ Len(z) >= 1
    /\ C16_Branch(1) = "partial" /\ Logged(<<"write", 1>>)

\* ===================================================== claims: estimators
Uniform(arr) == \A j, l \in 1..Len(arr) : arr[j] = arr[l]
Flat(arr) == \A j \in 1..Len(arr) : arr[j] = Q
ScaledDone == fit = "scaled" /\ epc \in {"returned", "raised"}

\* C4: scaled_transit_fit, given flux = model (zero residual), a uniform
\* sigma, N >= 3 points and a model that is not flat, returns s = 1 and
\* b = 0.
C4_AsClaimed ==
    (ScaledDone /\ Len(flux) >= 3 /\ flux = model /\ Uniform(sigma) /\ ~Flat(model)) =>
        /\ epc = "returned"
        /\ eret[2] = Real(RInt(1))
        /\ eret[3] = Real(RInt(0))

\* C5: scaled_transit_fit never raises; it returns the nan 4-tuple when there
\* are fewer than 3 points, when the weighted sum of squared (model-1) is
\* zero and when the curvature term is not positive (chisq = 0), and four
\* finite values in every other case.
C5_AsClaimed ==
    ScaledDone =>
        /\ epc = "returned"
        /\ IF \/ Len(flux) < 3
              \/ RIsZero(stf_m(sigma, model))
              \/ RIsZero(stf_chisq(flux, sigma, model))
           THEN eret = stf_nan4
           ELSE \A j \in 2..5 : IsFinite(eret[j])

\* C15: in scaled_transit_fit with N >= 3 and a nonzero weighted sum of
\* squared (model - 1), whenever chisq > 0 the curvature term
\* _t = 3*chisq/b^4 - N/b^2 equals 2*N^2/chisq, the return is
\* sigma_b = b/sqrt(2N) and sigma_s = b/sqrt(sum of w*(model-1)^2), and the
\* nan tuple of the curvature test is returned only when chisq is zero.
C15_CurvatureIsPositive ==
    (ScaledDone /\ Len(flux) >= 3 /\ ~RIsZero(stf_m(sigma, model))) =>
        LET N == Len(flux)
            chisq == stf_chisq(flux, sigma, model)
            bsq == stf_bsq(flux, sigma, model)
        IN  /\ RPos(chisq) =>
                  /\ stf_t(flux, sigma, model) = RDiv(RInt(2 * N * N), chisq)
                  /\ epc = "returned" /\ eret # stf_nan4
                  /\ eret[3] = np_sqrt(bsq)
                  /\ eret[4] = np_sqrt(RDiv(bsq, stf_m(sigma, model)))
                  /\ eret[5] = np_sqrt(RDiv(bsq, RInt(2 * N)))
            /\ (epc = "returned" /\ eret = stf_nan4) => RIsZero(chisq)

\* A fit of 3 points with a nonzero residual has returned its four values.
C15_Witness ==
    /\ ScaledDone /\ Len(flux) = 3 /\ ~RIsZero(stf_m(sigma, model))
    /\ RPos(stf_chisq(flux, sigma, model))
    /\ epc = "returned" /\ eret # stf_nan4

MinerrRuns == fit = "minerr"

\* C6 as claimed: minerr_transit_fit returns (0, 0) whenever the model is
\* uniformly 1, whatever the length of the arrays.
C6_AsClaimed ==
    (MinerrRuns /\ Flat(model) /\ epc = "returned") => eret = minerr_zero2

\* C6 amended: with a model that is uniformly 1 and at least 3 flux points,
\* minerr_transit_fit returns (0, 0) for any flux and sigma, straight from
\* the flat test, without evaluating the likelihood; with fewer than 3
\* points it returns (nan, nan).
C6_FlatModelGivesZero ==
    (MinerrRuns /\ Flat(model)) =>
        /\ epc \in {"entry", "flat", "returned"}
        /\ ~LoggedKind("negloglike")
        /\ err = ""
        /\ (epc = "returned" =>
              eret = IF Len(flux) >= 3 THEN minerr_zero2 ELSE minerr_nan2)

\* C6 witness: (0, 0) has been returned for a flat model of 3 points whose
\* flux samples differ.
C6_Witness ==
    /\ MinerrRuns /\ Flat(model) /\ Len(flux) = 3 /\ flux[1] # flux[2]
    /\ epc = "returned" /\ eret = minerr_zero2

\* C7: with fewer than 3 flux points minerr_transit_fit returns (nan, nan)
\* for any model and sigma, before np.min(model) is taken and before
\* _negloglike is evaluated.
C7_TooFewPointsGivesNan ==
    (MinerrRuns /\ Len(flux) < 3) =>
        /\ epc \in {"entry", "returned"}
        /\ ~LoggedKind("min") /\ ~LoggedKind("negloglike")
        /\ err = ""
        /\ (epc = "returned" => eret = minerr_nan2)

\* C7 witness: (nan, nan) has been returned for 2 points and a model that
\* is not flat.
C7_Witness ==
    /\ MinerrRuns /\ Len(flux) = 2 /\ ~Flat(model) /\ np_min(model) # Q
    /\ epc = "returned" /\ eret = minerr_nan2

\* The state handed to brent: a bracket 0 = s_min < s_mid < s_max whose inner
\* value is no higher than either outer one, of the shape (0, 1, 2^j) when
\* s = 1 beat s = 0 and (0, 2^-j, 1) otherwise.
C11_BracketAtBrent ==
    (MinerrRuns /\ epc = "brent") =>
        /\ s_min = RInt(0) /\ RLt(s_min, s_mid) /\ RLt(s_mid, s_max)
        /\ fb <= fa /\ fb <= fc
        /\ \/ /\ s_mid = RInt(1) /\ fb < fa
              /\ \E j \in 1..MaxPow : s_max = RInt(Pow2(j))
           \/ /\ s_max = RInt(1) /\ fc >= fa
              /\ \E j \in 1..17 : s_mid = Frac(1, Pow2(j))

\* The steps of bracketing: the path is chosen by comparing the values at
\* 1 and 0; a trial point is passed over only when its value is below the
\* value at 1 (doubling) or above the value at 0 (halving), and the loop
\* stops at the first trial point where that fails.
C11_StopsAtFirst ==
    MinerrRuns =>
        /\ (epc = "bracket" /\ epc' = "doubling") =>
               (fb' < fa' /\ s_mid' = RInt(1) /\ s_max' = RInt(2))
        /\ (epc = "bracket" /\ epc' = "halving") =>
               (fc' >= fa' /\ s_max' = RInt(1) /\ s_mid' = Frac(1, 2))
        /\ (epc = "doubling" /\ epc' = "doubling") =>
               (fc < fb /\ s_max' = RMul(RInt(2), s_max)
                /\ s_mid' = s_mid /\ fb' = fb /\ fa' = fa)
        /\ (epc = "doubling" /\ epc' = "brent") =>
               (fc >= fb /\ s_max' = s_max /\ fc' = fc)
        /\ (epc = "halving" /\ epc' = "halving") =>
               (fb > fa /\ s_mid' = RMul(Frac(1, 2), s_mid)
                /\ s_max' = s_max /\ fc' = fc /\ fa' = fa)
        /\ (epc = "halving" /\ epc' = "brent") =>
               (fb <= fa /\ s_mid' = s_mid /\ fb' = fb)

\* C11: whenever bracketing ends without the (0, 0) return, the triple
\* handed to the minimizer has 0 = s_min < s_mid < s_max with the value at
\* s_mid no higher than the values at s_min and s_max; it is (0, 1, s_max)
\* with s_max the first of 2, 4, 8, ... whose value is not below the value
\* at 1 when s = 1 beats s = 0, and (0, s_mid, 1) with s_mid the first of
\* 1/2, 1/4, ... whose value is not above the value at 0 otherwise.
C11_BracketIsValid == []C11_BracketAtBrent /\ [][C11_StopsAtFirst]_vars

\* The doubling path reaches brent after passing over the trial point 2.
C11_Witness ==
    /\ MinerrRuns /\ epc = "brent"
    /\ s_mid = RInt(1) /\ s_max = RInt(4) /\ fb < fa /\ fc >= fb

\* The (0, 0) return made from inside the halving loop.
C12_GaveUp ==
    /\ MinerrRuns /\ epc = "returned" /\ eret = minerr_zero2
    /\ LoggedKind("negloglike")

\* C12 as claimed: giving up returns (0, 0) without the minimizer or the
\* root-finder, and the likelihood is never evaluated at a trial point
\* smaller than the 2^-16 floor.
C12_AsClaimed ==
    MinerrRuns =>
        /\ C12_GaveUp => (~LoggedKind("brent") /\ ~LoggedKind("brentq"))
        /\ \A j \in 1..Len(log) :
               log[j][1] = "negloglike" =>
                  (log[j][2] = RInt(0) \/ ~RLt(log[j][2], HalvingFloor))

\* What holds in each state of the halving path: s_mid is one of the 17
\* points 1/2, ..., 2^-17, no positive trial point is smaller than 2^-17,
\* and giving up happens at 2^-17 with the value there still above the
\* value at 0 and with neither brent nor brentq called.
C12_HalvingState ==
    MinerrRuns =>
        /\ epc = "halving" => \E j \in 1..17 : s_mid = Frac(1, Pow2(j))
        /\ \A j \in 1..Len(log) :
               log[j][1] = "negloglike" =>
                  (log[j][2] = RInt(0) \/ ~RLt(log[j][2], Frac(1, Pow2(17))))
        /\ C12_GaveUp =>
               /\ s_mid = Frac(1, Pow2(17)) /\ fb > fa /\ s_max = RInt(1)
               /\ Logged(<<"negloglike", Frac(1, Pow2(17))>>)
               /\ ~LoggedKind("brent") /\ ~LoggedKind("brentq")

\* The steps of the halving loop: it gives up only below the floor and with
\* no improvement on s = 0, and from the point 2^-17 it always leaves.
C12_HalvingStep ==
    MinerrRuns =>
        /\ (epc = "halving" /\ epc' = "returned") =>
               (fb > fa /\ RLt(s_mid, HalvingFloor) /\ eret' = minerr_zero2)
        /\ (epc = "halving" /\ s_mid = Frac(1, Pow2(17))) =>
               epc' # "halving"

\* C12 (amended): on the halving path, once s_mid has been halved below
\* 2^-16 with no trial point improving on s = 0, the function returns
\* (0, 0) and never calls the minimizer or the root-finder; the loop ends
\* after at most 16 halvings; the floor is tested before each halving, so
\* the likelihood is evaluated at 2^-17, below the floor, and never at a
\* smaller trial point.
C12_HalvingGivesUp == []C12_HalvingState /\ [][C12_HalvingStep]_vars

\* The loop has given up after evaluating the likelihood at 2^-17.
C12_Witness ==
    /\ C12_GaveUp /\ s_mid = Frac(1, Pow2(17))
    /\ Logged(<<"negloglike", Frac(1, Pow2(17))>>)

\* The (s_opt, s_err) return that follows the root-finder.
C13_FitReturned == MinerrRuns /\ epc = "returned" /\ Logged(<<"return", "fit">>)

\* What holds in each state of the confidence search: _loglikediff is -0.5
\* at s_opt, the upper bound lies above s_opt, the root-finder is entered
\* with a value >= 0 at s_hi, and the point it hands back lies above s_opt,
\* has _loglikediff = 0 and gives s_err = s_hi - s_opt > 0.
C13_ConfidenceState ==
    MinerrRuns =>
        /\ epc \in {"confidence", "brentq"} =>
               /\ minerr_loglikediff(f_opt, minerr_loglike_0(f_opt)) = -HalfLog
               /\ RLt(s_opt, s_hi)
               /\ \E j \in 0..MaxPow : s_hi = RMul(RInt(Pow2(j)), s_max)
        /\ epc = "brentq" => f_hi >= 0
        /\ C13_FitReturned =>
               /\ RLt(s_opt, s_hi) /\ f_hi = 0
               /\ eret = <<"tuple", Real(s_opt), Real(RSub(s_hi, s_opt))>>
               /\ RPos(eret[3][2])

\* The steps of the confidence search: it starts at the bracket's s_max,
\* doubles s_hi only while the likelihood there is below f_min + 0.5, and
\* then calls the root-finder on [s_opt, s_hi].
C13_ConfidenceStep ==
    MinerrRuns =>
        /\ (epc = "brent" /\ epc' = "confidence") =>
               (s_hi' = s_max /\ f_hi' = fc - f_opt' - HalfLog)
        /\ (epc = "confidence" /\ epc' = "confidence") =>
               (f_hi < 0 /\ s_hi' = RMul(RInt(2), s_hi)
                /\ s_opt' = s_opt /\ f_opt' = f_opt)
        /\ (epc = "confidence" /\ epc' = "brentq") =>
               (f_hi >= 0 /\ s_hi' = s_hi /\ f_hi' = f_hi)
        /\ (epc = "brentq" /\ epc' = "returned") =>
               /\ log'[Len(log) + 1] = <<"brentq", s_opt, s_hi>>
               /\ RLt(s_opt, s_hi') /\ RLe(s_hi', s_hi)

C14_TrivialExit ==
    /\ MinerrRuns /\ epc = "returned" /\ Logged(<<"return", "zero">>)
    /\ ~LoggedKind("negloglike")

\* C14 as claimed: with N >= 3, once the model has been tested the (0, 0)
\* exit of step 2 has been taken if and only if every sample of the model
\* equals 1; a model with a sample different from 1 goes on to bracketing.
C14_AsClaimed ==
    (MinerrRuns /\ Len(flux) >= 3 /\ Logged(<<"min", "model">>)) =>
        (C14_TrivialExit <=> Flat(model))

\* ================================================= claims: model functions
ModelRuns == caller \in {"TransitModel", "EclipseModel"}

\* Q^2 (Q - S) b^2 for k = kk/Q: the numerator of b^2 = ((1-k)^2 - S (1+k)^2)/(1-S).
C8_bsq_num(kk, S) == Q * (Q - kk) * (Q - kk) - S * (Q + kk) * (Q + kk)

\* Q^2 (Q - S) ((1+k)^2 - b^2)
C8_q_num(kk, S) == (Q + kk) * (Q + kk) * (Q - S) - C8_bsq_num(kk, S)

\* The invalid parameter combinations as the claim lists them, in integers.
C8_Invalid ==
    LET kk == ISqrt(par.D)
    IN  \/ par.D <= 0
        \/ 4 * par.D > Q * Q
        \/ par.S >= Q
        \/ C8_bsq_num(kk, par.S) < 0
        \/ C8_q_num(kk, par.S) <= 0
        \/ C8_bsq_num(kk, par.S) * par.W * par.W >= Q * Q * C8_q_num(kk, par.S)
        \/ /\ caller = "TransitModel"
           /\ ~(0 < par.h_2 /\ par.h_2 <= par.h_1 /\ par.h_1 < Q)

\* C8: for an invalid parameter combination TransitModel / EclipseModel
\* return ones of the shape of t without calling t2z or a kernel; a kernel
\* is only ever entered with 0 < k <= 0.5, and no exception of a kernel
\* (the k > 1 error of ueclipse) leaves a model function.
C8_InvalidParametersGiveFlatModel ==
    ModelRuns =>
        /\ C8_Invalid =>
              /\ wpc \in {"entry", "returned"}
              /\ ~LoggedKind("call")
              /\ fn = "none"
              /\ (wpc = "returned" => wret = <<"array", ones_of(par.n)>>)
        /\ \A j \in 1..Len(log) :
              (log[j][1] = "call" /\ log[j][2] # "t2z") =>
                  (0 < log[j][3] /\ 2 * log[j][3] <= Q)
        /\ (fn # "none" => (0 < k /\ 2 * k <= Q))
        /\ pc # "raised" /\ wpc # "raised" /\ err = ""

\* C8 witness: EclipseModel has returned ones for a non-empty t because
\* k > 0.5, every other test passing.
C8_Witness ==
    /\ caller = "EclipseModel" /\ wpc = "returned" /\ par.n > 0
    /\ par.D > 0 /\ 2 * ISqrt(par.D) > Q /\ ISqrt(par.D) <= Q
    /\ par.S = 0 /\ par.W = 1
    /\ wret = <<"array", ones_of(par.n)>>
    /\ ~LoggedKind("call")

\* A kernel has been entered through TransitModel with k = 0.5 and has
\* returned an array that is not flat.
C8_ValidReached ==
    /\ caller = "TransitModel" /\ wpc = "returned" /\ 2 * k = Q
    /\ wret # <<"array", ones_of(par.n)>>

====
